---- MODULE Spec2Model ----
(***************************************************************************)
(* Model of src/Mod/Path/Path/Post/scripts/base.py: the G-code post        *)
(* processor.  Two programs live in that file:                             *)
(*   - the module-level exporter: export / linenumber / format_outstring / *)
(*     parse / drill_translate, working on module globals;                 *)
(*   - the class PostProcessorBase: line / formatParameter /               *)
(*     formatCommand / moveRapid ... (the command emitter).                *)
(*                                                                         *)
(* Numbers.  A length is an integer number of thousandths of a millimetre, *)
(* a feed an integer number of thousandths of mm/s (FreeCAD's internal     *)
(* units), a formatted number (".3f") an integer number of thousandths of  *)
(* the output unit, a ".2f" one an integer number of hundredths.           *)
(*                                                                         *)
(* Text.  The exported text is a sequence of pieces, one per               *)
(* "linenumber() + ..." concatenation of the source:                       *)
(*   [num  |-> <<>> or <<n>>   the "N<n> " prefix linenumber() returned,   *)
(*    toks |-> the space separated tokens, each <<word>> or <<letter,      *)
(*             value>>,                                                    *)
(*    nl   |-> whether the piece ends with "\n"].                          *)
(***************************************************************************)
EXTENDS Integers, Sequences, FiniteSets, TLC

VARIABLES
    scope,               \* which input sets this run draws from (not program state)
    cfg,                 \* the configuration globals processArguments resolved
    LINENR,              \* global: next line number
    SUPPRESS_COMMANDS,   \* global: commands commented out
    CURRENT_X, CURRENT_Y, CURRENT_Z,   \* globals: tracked position
    MOTION_MODE,         \* global: "G90" / "G91"
    DRILL_RETRACT_MODE,  \* global: "G98" / "G99"
    UNITS,               \* global: "G21" / "G20" (UNIT_FORMAT, UNIT_SPEED_FORMAT follow it)
    gcode,               \* export's local: the text so far
    out,                 \* parse's local: [list |-> BOOLEAN, text |-> pieces]
    lastcommand,         \* parse's local
    dt,                  \* drill_translate's locals while its peck loop runs
    pc,                  \* where the export is
    err,                 \* the exception that ended the export ("" if none)
    obj,                 \* the operation being exported
    nobj,                \* operations taken from objectslist so far
    prog,                \* history: one record per command parse has taken
    emitted,             \* PostProcessorBase: the last formatCommand call and its result
    first                \* history: the program and the text of an earlier export

vars == <<scope, cfg, LINENR, SUPPRESS_COMMANDS, CURRENT_X, CURRENT_Y, CURRENT_Z,
          MOTION_MODE, DRILL_RETRACT_MODE, UNITS, gcode, out, lastcommand, dt, pc,
          err, obj, nobj, prog, emitted, first>>

-----------------------------------------------------------------------------
(* Bounds of the model *)

\* commands per exported program
MaxCmds == 2
\* operations per exported program
MaxOps == 2
\* iterations of the peck loop followed before the model stops following it
MaxPeck == 12

-----------------------------------------------------------------------------
(* Program constants *)

LINE_NUMBER_START == 100
LINEINCR == 10

RAPID_MOVES == {"G0", "G00"}
LINEAR_COMMANDS == {"G1", "G01"}
ARC_COMMANDS == {"G2", "G02", "G3", "G03"}
DWELL_COMMANDS == {"G4", "G04"}
UNIT_COMMANDS == {"G20", "G21"}
MODE_COMMANDS == {"G90", "G91", "G90.1", "G91.1"}
MOTION_COMMANDS == RAPID_MOVES \cup LINEAR_COMMANDS \cup ARC_COMMANDS
DRILL_CYCLES == {"G81", "G82", "G83"}

\* parse's parameter order
params == <<"X", "Y", "Z", "A", "B", "C", "U", "V", "W", "I", "J", "K",
            "F", "S", "T", "Q", "R", "L", "P">>

-----------------------------------------------------------------------------
(* Units.Quantity(...).getValueAs(...) followed by format(..., ".3f")       *)

\* a / b rounded to the nearest integer (b > 0)
RoundDiv(a, b) == (2 * a + b) \div (2 * b)

UNIT_FORMAT(units) == IF units = "G21" THEN "mm" ELSE "in"
UNIT_SPEED_FORMAT(units) == IF units = "G21" THEN "mm/min" ELSE "in/min"

\* a length (thousandths of mm) as thousandths of the output unit
FormatLength(q, units) ==
    IF UNIT_FORMAT(units) = "mm" THEN q ELSE RoundDiv(q * 10, 254)

\* a feed (thousandths of mm/s) in output units per minute, in thousandths
SpeedValue(v, units) ==
    IF UNIT_SPEED_FORMAT(units) = "mm/min" THEN v * 60 ELSE RoundDiv(v * 600, 254)

\* drill_translate formats the feed with ".2f": hundredths
FormatFeed2(v, units) == RoundDiv(SpeedValue(v, units), 10)

-----------------------------------------------------------------------------
(* Pieces of text *)

Raw(toks, nl) == [toks |-> toks, nl |-> nl]
Word(w) == <<w>>
Tok(letter, value) == <<letter, value>>
TextLine(w) == Raw(<<Word(w)>>, TRUE)

\* linenumber(): the prefix it returns when LINENR is nr
linenumber(nr) == IF ~cfg.OUTPUT_LINE_NUMBERS THEN <<>> ELSE <<nr>>
\* LINENR after k calls of linenumber()
LinenrAfter(nr, k) == IF ~cfg.OUTPUT_LINE_NUMBERS THEN nr ELSE nr + k * LINEINCR

\* the pieces raws, each preceded by its own linenumber() call, LINENR being nr before
Stamp(raws, nr) ==
    [i \in 1..Len(raws) |->
        [num |-> linenumber(LinenrAfter(nr, i - 1)),
         toks |-> raws[i].toks, nl |-> raws[i].nl]]

\* "for line in BLOCK.splitlines(True): gcode += linenumber() + line"
\* a block is a sequence of lines, a line a sequence of words
BlockLines(block) == [i \in 1..Len(block) |->
                        Raw([j \in 1..Len(block[i]) |-> Word(block[i][j])], TRUE)]
\* the test '"G90" in PREAMBLE'
InBlock(w, block) == \E i \in 1..Len(block) : \E j \in 1..Len(block[i]) : block[i][j] = w

\* format_outstring joins the tokens with COMMAND_SPACE: the token sequence itself
format_outstring(strTable) == strTable

-----------------------------------------------------------------------------
(* parse: one command's tokens (lines 737-779) *)

None == "None"

\* the value printed after a parameter letter other than F
FormatParam(p, v, units) ==
    IF p \in {"T", "H", "S"} THEN v          \* str(int(v))
    ELSE IF p \in {"D", "P", "L"} THEN v     \* str(v)
    ELSE IF p \in {"A", "B", "C"} THEN v     \* format(v, ".3f"): no unit conversion
    ELSE FormatLength(v, units)              \* X Y Z U V W I J K R Q

\* whether parse appends a token for parameter p of command c
ParamPrinted(c, p, units) ==
    /\ p \in DOMAIN c.Parameters
    /\ p = "F" => /\ c.Name \notin RAPID_MOVES
                  /\ SpeedValue(c.Parameters["F"], units) > 0

ParamTokens(c, units) ==
    LET ps == SelectSeq(params, LAMBDA p : ParamPrinted(c, p, units))
    IN  [i \in 1..Len(ps) |->
            IF ps[i] = "F" THEN Tok("F", SpeedValue(c.Parameters["F"], units))
            ELSE Tok(ps[i], FormatParam(ps[i], c.Parameters[ps[i]], units))]

\* lines 743-746 with the comparison left out
ModalPopAlways(command, last) == cfg.MODAL
\* "if MODAL: if command == lastcommand: outstring.pop(0)"
ModalPop(command, last) == cfg.MODAL /\ command = last

\* outstring after the parameter loop
Outstring(c, last, units) ==
    (IF ModalPop(c.Name, last) THEN <<>> ELSE <<Word(c.Name)>>) \o ParamTokens(c, units)

\* lines 785-791 without the test of line 785
TrackedAlways(c, axis, cur) ==
    IF axis \in DOMAIN c.Parameters THEN c.Parameters[axis] ELSE cur
\* lines 785-791: the tracked position after command c
Tracked(c, axis, cur) ==
    IF c.Name \in MOTION_COMMANDS /\ axis \in DOMAIN c.Parameters
    THEN c.Parameters[axis] ELSE cur

-----------------------------------------------------------------------------
(* drill_translate (lines 849-991) *)

\* outstring[0] = "(" + outstring[0];  outstring[-1] = outstring[-1] + ")"
OpenTok(t) == <<"(" \o t[1]>> \o Tail(t)
CloseTok(t) == t \o <<")">>
Commented(os) ==
    LET a == [os EXCEPT ![1] = OpenTok(os[1])]
    IN  [a EXCEPT ![Len(a)] = CloseTok(a[Len(a)])]

\* line 875 with the comparison turned round
DrillRejectedAbove(R, Z) == R > Z
\* "if RETRACT_Z < drill_Z": the cycle is refused
DrillRejected(R, Z) == R < Z

\* lines 880-887 with the raise taken in either drill-retract mode
ResolvedRetractInitial(R, curZ, mode, retractMode) ==
    LET r == IF mode = "G91" THEN R + curZ ELSE R
    IN  IF curZ >= r THEN curZ ELSE r
\* lines 880-887 without the G98 branch
ResolvedRetractPlain(R, curZ, mode, retractMode) ==
    IF mode = "G91" THEN R + curZ ELSE R
\* lines 880-887: the retract height the expansion uses
ResolvedRetract(R, curZ, mode, retractMode) ==
    LET r == IF mode = "G91" THEN R + curZ ELSE R
    IN  IF retractMode = "G98" /\ curZ >= r THEN curZ ELSE r

\* lines 880-883: a coordinate of the cycle in absolute terms
Resolved(v, cur, mode) == IF mode = "G91" THEN v + cur ELSE v

\* lines 893-895 with nothing backed off
ABitNone(step) == 0
\* "a_bit = drill_Step * 0.05"
ABit(step) == (step * 5) \div 100

\* line 963 with the step left out
NextStopStuck(last, step) == last
\* "next_Stop_Z = last_Stop_Z - drill_Step"
NextStop(last, step) == last - step

G0_Z(z, units) == Raw(<<Word("G0"), Tok("Z", FormatLength(z, units))>>, TRUE)
G0_XY(x, y, units) ==
    Raw(<<Word("G0"), Tok("X", FormatLength(x, units)), Tok("Y", FormatLength(y, units))>>, TRUE)
G1_Z(z, f, units) ==
    Raw(<<Word("G1"), Tok("Z", FormatLength(z, units)), Tok("F", FormatFeed2(f, units))>>, TRUE)

\* line 915 with the test never true
BelowRetractNever(curZ, RETRACT_Z) == FALSE
\* "if CURRENT_Z < RETRACT_Z": a rapid up to the retract height comes first
BelowRetract(curZ, RETRACT_Z) == curZ < RETRACT_Z

\* lines 861-946: everything before the peck loop.  g is the globals drill_translate
\* reads: [X, Y, Z, mode, retract, units].  The result says whether the function
\* has returned early (refused), and whether the peck loop is to be entered.
DrillHead(outstring, c, g) ==
    LET P == c.Parameters
        rel == g.mode = "G91"
        comment == IF cfg.OUTPUT_COMMENTS
                   THEN <<Raw(format_outstring(Commented(outstring)), TRUE)>> ELSE <<>>
        RETRACT_Z == ResolvedRetract(P["R"], g.Z, g.mode, g.retract)
        drill_X == Resolved(P["X"], g.X, g.mode)
        drill_Y == Resolved(P["Y"], g.Y, g.mode)
        drill_Z == Resolved(P["Z"], g.Z, g.mode)
        prelim ==
            (IF rel THEN <<Raw(<<Word("G90")>>, TRUE)>> ELSE <<>>)
            \o (IF BelowRetract(g.Z, RETRACT_Z) THEN <<G0_Z(RETRACT_Z, g.units)>> ELSE <<>>)
            \o <<G0_XY(drill_X, drill_Y, g.units)>>
            \o (IF g.Z > RETRACT_Z THEN <<G1_Z(RETRACT_Z, P["F"], g.units)>> ELSE <<>>)
        plain ==
            <<G1_Z(drill_Z, P["F"], g.units)>>
            \o (IF c.Name = "G82" THEN <<Raw(<<Word("G4"), Tok("P", P["P"])>>, TRUE)>> ELSE <<>>)
            \o <<G0_Z(RETRACT_Z, g.units)>>
    IN  IF DrillRejected(P["R"], P["Z"])
        THEN [refused |-> TRUE, loop |-> FALSE,
              buf |-> comment \o <<TextLine("(drill cycle error: R less than Z )")>>]
        ELSE [refused |-> FALSE,
              loop |-> c.Name = "G83" /\ P["Q"] # 0,
              buf |-> comment \o prelim
                      \o (IF c.Name \in {"G81", "G82"} THEN plain ELSE <<>>),
              RETRACT_Z |-> RETRACT_Z, drill_Z |-> drill_Z,
              drill_Step |-> IF c.Name = "G83" THEN P["Q"] ELSE 0,
              F |-> P["F"]]

\* line 964 with the other branch taken at the bottom
StopsShortOrAt(next_Stop_Z, drill_Z) == next_Stop_Z >= drill_Z
\* "if next_Stop_Z > drill_Z": the next peck stops short of the hole bottom
StopsShort(next_Stop_Z, drill_Z) == next_Stop_Z > drill_Z

\* lines 988-989: 'trBuff += linenumber() + "G91"' (no line terminator)
DrillRestore(mode) == IF mode = "G91" THEN <<Raw(<<Word("G91")>>, FALSE)>> ELSE <<>>

\* lines 950-983: one iteration of "while 1".  l is the loop's locals.
PeckIteration(l, units) ==
    LET clearance == IF l.last_Stop_Z # l.RETRACT_Z
                     THEN <<G0_Z(l.last_Stop_Z + ABit(l.drill_Step), units)>> ELSE <<>>
        next_Stop_Z == NextStop(l.last_Stop_Z, l.drill_Step)
    IN  IF StopsShort(next_Stop_Z, l.drill_Z)
        THEN [break |-> FALSE, last_Stop_Z |-> next_Stop_Z,
              buf |-> clearance \o <<G1_Z(next_Stop_Z, l.F, units), G0_Z(l.RETRACT_Z, units)>>]
        ELSE [break |-> TRUE, last_Stop_Z |-> l.last_Stop_Z,
              buf |-> clearance \o <<G1_Z(l.drill_Z, l.F, units), G0_Z(l.RETRACT_Z, units)>>]

-----------------------------------------------------------------------------
(* parse: the rest of the loop body, after the drill cycle block (lines 805-844) *)

SPINDLE_COMMANDS == {"M3", "M03", "M4", "M04"}
TOOLCHANGE_COMMANDS == {"M6", "M06"}

\* "command in SUPPRESS_COMMANDS" (a list)
Suppressed(command, supp) == \E i \in 1..Len(supp) : supp[i] = command

\* re.match(r"^\(MC_RUN_COMMAND: ([^)]+)\)$", command): the payload, if any
MC_RUN_COMMAND(command) ==
    IF command = "(MC_RUN_COMMAND: M900)" THEN <<"M900">> ELSE <<>>

\* outstring.insert(0, "("); outstring.append(")")
Wrapped(os) == <<Word("(")>> \o os \o <<Word(")")>>

\* The result: the pieces appended to out, which of them (0: none) is the line
\* format_outstring made of the command's outstring, whether "out = []" ran, and
\* whether outstring.pop(0) raised IndexError.
ParseTail(c, outstring, supp) ==
    LET command == c.Name
        spin == cfg.SPINDLE_WAIT > 0 /\ command \in SPINDLE_COMMANDS
        spinLines == IF spin
                     THEN <<Raw(format_outstring(outstring), TRUE),
                            Raw(format_outstring(<<Word("G4"), Tok("P", cfg.SPINDLE_WAIT)>>), TRUE)>>
                     ELSE <<>>
        os1 == IF spin THEN <<>> ELSE outstring
        tc == command \in TOOLCHANGE_COMMANDS
        tcLines == IF ~tc THEN <<>>
                   ELSE (IF cfg.OUTPUT_COMMENTS THEN <<TextLine("(Begin toolchange)")>> ELSE <<>>)
                        \o (IF cfg.OUTPUT_TOOL_CHANGE THEN BlockLines(cfg.TOOL_CHANGE) ELSE <<>>)
        os2 == IF tc /\ ~cfg.OUTPUT_TOOL_CHANGE THEN Wrapped(os1) ELSE os1
        msg == command = "message"
        os3 == IF msg /\ cfg.OUTPUT_COMMENTS /\ os2 # <<>> THEN Tail(os2) ELSE os2
        os4 == IF Suppressed(command, supp) THEN Wrapped(os3) ELSE os3
        line == IF Len(os4) >= 1 THEN <<Raw(format_outstring(os4), TRUE)>> ELSE <<>>
        mc == MC_RUN_COMMAND(command)
        raw == IF mc # <<>> THEN <<Raw(<<Word(mc[1])>>, TRUE)>> ELSE <<>>
    IN  [lines |-> spinLines \o tcLines \o line \o raw,
         main |-> IF spin THEN 1
                  ELSE IF line # <<>> THEN Len(tcLines) + 1 ELSE 0,
         reset |-> msg /\ ~cfg.OUTPUT_COMMENTS,
         IndexError |-> msg /\ cfg.OUTPUT_COMMENTS /\ os2 = <<>>]

-----------------------------------------------------------------------------
(* Inputs: the commands, operations and configurations a run draws from *)

mm(n) == n * 1000
Cmd(name, P) == [Name |-> name, Parameters |-> P]
NoParams == <<>>
Cycle(name, z, r, f) ==
    Cmd(name, ("X" :> mm(5)) @@ ("Y" :> mm(5)) @@ ("Z" :> z) @@ ("R" :> r) @@ ("F" :> f))
Peck(z, r, q, f) ==
    LET c == Cycle("G83", z, r, f) IN [c EXCEPT !.Parameters = @ @@ ("Q" :> q)]
Dwell(z, r, p, f) ==
    LET c == Cycle("G82", z, r, f) IN [c EXCEPT !.Parameters = @ @@ ("P" :> p)]

\* a program: moves, mode switches, drill cycles, spindle, tool change, message
ProgramCommands ==
    { Cmd("G0", ("X" :> mm(10)) @@ ("Z" :> mm(20)) @@ ("F" :> mm(5))),
      Cmd("G1", ("X" :> 0) @@ ("Z" :> mm(2)) @@ ("F" :> mm(2))),
      Cmd("G1", ("Y" :> mm(5)) @@ ("F" :> 0)),
      Cmd("G91", NoParams),
      Cmd("G99", NoParams),
      Cycle("G81", mm(-10), mm(5), mm(2)),
      Cycle("G81", mm(5), mm(-10), mm(2)),
      Peck(mm(-10), mm(5), mm(3), mm(2)),
      Cmd("M3", ("S" :> 1000)),
      Cmd("M6", ("T" :> 1)),
      Cmd("message", NoParams) }

\* drill cycles over a range of depths, retract heights, peck steps and feeds
CycleDepths == {mm(-10), mm(-4), mm(5)}
CycleRetracts == {mm(-10), mm(-4), mm(5)}
CycleSteps == {mm(-3), 0, mm(3), mm(4), mm(20)}
CycleFeeds == {0, mm(2)}
CycleCommands ==
    { Cycle("G81", z, r, f) : z \in CycleDepths, r \in CycleRetracts, f \in CycleFeeds }
    \cup { Dwell(z, r, 1, mm(2)) : z \in CycleDepths, r \in CycleRetracts }
    \cup { Peck(z, r, q, mm(2)) : z \in CycleDepths, r \in CycleRetracts, q \in CycleSteps }

\* the commands of operations that differ in coolant mode and activity
OpsCommands ==
    { Cmd("G1", ("X" :> 0) @@ ("Z" :> mm(2)) @@ ("F" :> mm(2))),
      Cmd("G91", NoParams),
      Peck(mm(-10), mm(5), mm(4), mm(2)) }

\* commands that a suppression set may name, and others
SuppressCommands ==
    { Cmd("G98", NoParams), Cmd("G99", NoParams), Cmd("G80", NoParams),
      Cmd("M3", ("S" :> 1000)), Cmd("M6", ("T" :> 1)),
      Cmd("G1", ("X" :> 0) @@ ("Z" :> mm(2)) @@ ("F" :> mm(2))),
      Peck(mm(-10), mm(5), mm(20), mm(2)) }

\* the commands of a program that is exported twice
TwiceCommands ==
    { Cmd("G0", ("X" :> mm(10)) @@ ("Z" :> mm(20)) @@ ("F" :> mm(5))),
      Cmd("G91", NoParams),
      Cmd("G99", NoParams),
      Cycle("G81", mm(-10), mm(5), mm(2)),
      Peck(mm(-10), mm(5), mm(20), mm(2)) }

\* unit switches inside an operation, and a move of one inch
UnitsCommands ==
    { Cmd("G20", NoParams), Cmd("G21", NoParams),
      Cmd("G1", ("X" :> 25400) @@ ("Z" :> -12700) @@ ("F" :> mm(2))),
      Peck(-25400, 12700, 25400, mm(2)) }

\* the move that follows a drill cycle
FollowCommands == { Cmd("G1", ("Z" :> mm(2)) @@ ("F" :> mm(2))) }

\* the commands the k+1-th command of a run is drawn from: a program's, or one
\* drill cycle and the move after it
Commands(sc, k) ==
    IF sc = "cycles" THEN (IF k = 0 THEN CycleCommands ELSE FollowCommands)
    ELSE IF sc = "ops" THEN OpsCommands
    ELSE IF sc = "suppress" THEN SuppressCommands
    ELSE IF sc = "twice" THEN TwiceCommands
    ELSE IF sc = "units" THEN UnitsCommands
    ELSE ProgramCommands
CommandLimit(sc) == IF sc = "cycles" THEN 2 ELSE MaxCmds

Operation(label, active, coolant) ==
    [Label |-> label, Active |-> active, CoolantMode |-> coolant]
Operations(sc) ==
    IF sc = "cycles" THEN { Operation("Drill", TRUE, "None") }
    ELSE IF sc = "ops"
    THEN { Operation("Op", TRUE, "None"), Operation("Wet", TRUE, "Flood"),
           Operation("Fog", TRUE, "Mist"), Operation("Off", FALSE, "Mist") }
    ELSE { Operation("Op", TRUE, "None") }

\* the text blocks of the configuration
PREAMBLE == << <<"G17", "G90">> >>
POSTAMBLE == << <<"M5">>, <<"G17", "G90">>, <<"M2">> >>
TOOL_CHANGE == << <<"M0">> >>

Config(numbers, modal, comments, translate, extras) ==
    [OUTPUT_LINE_NUMBERS |-> numbers, MODAL |-> modal, OUTPUT_COMMENTS |-> comments,
     TRANSLATE_DRILL_CYCLES |-> translate,
     OUTPUT_HEADER |-> extras, OUTPUT_BCNC |-> extras, RETURN_TO |-> extras,
     OUTPUT_TOOL_CHANGE |-> extras, SPINDLE_WAIT |-> IF extras THEN 2 ELSE 0,
     PREAMBLE |-> PREAMBLE, POSTAMBLE |-> POSTAMBLE,
     PRE_OPERATION |-> <<>>, POST_OPERATION |-> <<>>, TOOL_CHANGE |-> TOOL_CHANGE]

Configs == { Config(n, m, c, t, x) : n, m, c, t, x \in BOOLEAN }

\* for the drill cycles: translation on, a preamble that sets neither mode nor units
CycleConfigs ==
    { [Config(TRUE, FALSE, c, TRUE, FALSE) EXCEPT !.PREAMBLE = << <<"G17">> >>] :
        c \in BOOLEAN }

\* for the operations: translation on, pre- and post-operation blocks
OpsConfigs ==
    { [Config(n, FALSE, c, TRUE, x) EXCEPT !.PRE_OPERATION = << <<"G54">> >>,
                                          !.POST_OPERATION = << <<"G53">> >>] :
        n, c, x \in BOOLEAN }

\* for two exports in a row: no header, a preamble with or without G90
TwiceConfigs ==
    { [Config(n, FALSE, FALSE, TRUE, FALSE) EXCEPT !.PREAMBLE = pre] :
        n \in BOOLEAN, pre \in {PREAMBLE, << <<"G17">> >>} }

\* for the unit switches: a preamble that names no units, or one of them
UnitsConfigs ==
    { [Config(FALSE, FALSE, c, t, FALSE) EXCEPT !.PREAMBLE = pre] :
        c, t \in BOOLEAN, pre \in { << <<"G17">> >>, << <<"G20">> >>, << <<"G21">> >> } }

\* for the suppression set: no line numbers
SuppressConfigs == { Config(FALSE, m, c, t, x) : m, c, t, x \in BOOLEAN }
\* SUPPRESS_COMMANDS as configured before export is called
ConfiguredSuppress == { <<>>, <<"M3">>, <<"M6">> }

NoDt == [iter |-> 0]
NoObj == Operation("", FALSE, "None")
NoEmit == [n |-> 0]
NoFirst == [n |-> 0]

-----------------------------------------------------------------------------
(* The exporter: export (lines 519-664) and parse (lines 687-846) *)

\* The state when export is called: the module globals as loaded (or as an
\* earlier export left them: they are never reset) and the resolved configuration.
StartWith(sc, cfgs, xs, zs, modes, retracts, units, supps) ==
    /\ scope = sc
    /\ cfg \in cfgs
    /\ LINENR = LINE_NUMBER_START
    /\ SUPPRESS_COMMANDS \in supps
    /\ CURRENT_X \in xs /\ CURRENT_Y = 0 /\ CURRENT_Z \in zs
    /\ MOTION_MODE \in modes
    /\ DRILL_RETRACT_MODE \in retracts
    /\ UNITS \in units
    /\ gcode = <<>>
    /\ out = [list |-> FALSE, text |-> <<>>]
    /\ lastcommand = None
    /\ dt = NoDt
    /\ pc = "export"
    /\ err = ""
    /\ obj = NoObj
    /\ nobj = 0
    /\ prog = <<>>
    /\ emitted = NoEmit
    /\ first = NoFirst

Start(sc, cfgs, zs, modes, retracts, units) ==
    StartWith(sc, cfgs, {0}, zs, modes, retracts, units, {<<>>})

Init == Start("program", Configs, {0}, {"G90"}, {"G98"}, {"G21"})

InitDrill == StartWith("cycles", CycleConfigs, {0, mm(1)}, {0, mm(2), mm(20)},
                       {"G90", "G91"}, {"G98", "G99"}, {"G21", "G20"}, {<<>>})

InitTwice == Start("twice", TwiceConfigs, {0}, {"G90"}, {"G98"}, {"G21"})

InitOps == Start("ops", OpsConfigs, {0}, {"G90"}, {"G98"}, {"G21"})

InitUnits == Start("units", UnitsConfigs, {0}, {"G90"}, {"G98"}, {"G21", "G20"})

InitSuppress == StartWith("suppress", SuppressConfigs, {0}, {0}, {"G90"}, {"G98"},
                          {"G21"}, ConfiguredSuppress)

position == <<CURRENT_X, CURRENT_Y, CURRENT_Z>>
inputs == <<scope, cfg, first>>

BlockMarks(name) ==
    IF cfg.OUTPUT_BCNC
    THEN <<TextLine("(Block-name: " \o name \o ")"), TextLine("(Block-expand: 0)"),
           TextLine("(Block-enable: 1)")>>
    ELSE <<>>

\* lines 531-567: header, suppression set, preamble, motion mode and units
ExportBegin ==
    /\ pc = "export"
    /\ LET header == IF cfg.OUTPUT_HEADER
                     THEN <<TextLine("(Exported by FreeCAD)"), TextLine("(Post Processor: base)"),
                            TextLine("(Output Time:now)")>>
                     ELSE <<>>
           pre == (IF cfg.OUTPUT_COMMENTS THEN <<TextLine("(Begin preamble)")>> ELSE <<>>)
                  \o BlockLines(cfg.PREAMBLE)
           hasMode == InBlock("G90", cfg.PREAMBLE) \/ InBlock("G91", cfg.PREAMBLE)
           hasUnits == InBlock("G21", cfg.PREAMBLE) \/ InBlock("G20", cfg.PREAMBLE)
           raws == header \o pre
                   \o (IF hasMode THEN <<>> ELSE <<TextLine(MOTION_MODE)>>)
                   \o (IF hasUnits THEN <<>> ELSE <<TextLine(UNITS)>>)
       IN  /\ gcode' = Stamp(raws, LINENR)
           /\ LINENR' = LinenrAfter(LINENR, Len(raws))
           /\ MOTION_MODE' = IF InBlock("G90", cfg.PREAMBLE) THEN "G90"
                             ELSE IF InBlock("G91", cfg.PREAMBLE) THEN "G91" ELSE MOTION_MODE
           /\ UNITS' = IF InBlock("G21", cfg.PREAMBLE) THEN "G21"
                       ELSE IF InBlock("G20", cfg.PREAMBLE) THEN "G20" ELSE UNITS
    /\ SUPPRESS_COMMANDS' = IF cfg.TRANSLATE_DRILL_CYCLES
                            THEN SUPPRESS_COMMANDS \o <<"G99", "G98", "G80">>
                            ELSE SUPPRESS_COMMANDS
    /\ pc' = "objects"
    /\ UNCHANGED <<inputs, position, DRILL_RETRACT_MODE, out, lastcommand, dt, err, obj,
                   nobj, prog, emitted>>

\* lines 608-615: coolant on
CoolantOn(coolantMode) ==
    (IF cfg.OUTPUT_COMMENTS /\ coolantMode # "None"
     THEN <<TextLine("(Coolant On:" \o coolantMode \o ")")>> ELSE <<>>)
    \o (IF coolantMode = "Flood" THEN <<TextLine("M8")>> ELSE <<>>)
    \o (IF coolantMode = "Mist" THEN <<TextLine("M7")>> ELSE <<>>)

\* lines 626-630: coolant off
CoolantOff(coolantMode) ==
    IF coolantMode # "None"
    THEN (IF cfg.OUTPUT_COMMENTS
          THEN <<TextLine("(Coolant Off:" \o coolantMode \o ")")>> ELSE <<>>)
         \o <<TextLine("M9")>>
    ELSE <<>>

\* line 583 with every operation taken for an active one
InactiveNever(o) == FALSE
\* "if PathUtil.opProperty(obj, "Active") is False: continue"
Inactive(o) == o.Active = FALSE

\* lines 569-618 and 695-735: the next object of objectslist, up to the first
\* command of its path (an inactive one is skipped)
NextObject(o) ==
    /\ pc = "objects"
    /\ nobj < MaxOps
    /\ nobj' = nobj + 1
    /\ IF Inactive(o)
       THEN UNCHANGED <<gcode, LINENR, out, lastcommand, pc, obj>>
       ELSE LET pre == BlockMarks(o.Label)
                       \o (IF cfg.OUTPUT_COMMENTS
                           THEN <<TextLine("(Begin operation: " \o o.Label \o ")")>> ELSE <<>>)
                       \o BlockLines(cfg.PRE_OPERATION)
                       \o CoolantOn(o.CoolantMode)
                path == IF cfg.OUTPUT_COMMENTS
                        THEN <<TextLine("(Path: " \o o.Label \o ")")>> ELSE <<>>
            IN  /\ gcode' = gcode \o Stamp(pre, LINENR)
                /\ out' = [list |-> FALSE, text |-> Stamp(path, LinenrAfter(LINENR, Len(pre)))]
                /\ LINENR' = LinenrAfter(LINENR, Len(pre) + Len(path))
                /\ lastcommand' = None
                /\ obj' = o
                /\ pc' = "parse"
    /\ UNCHANGED <<inputs, SUPPRESS_COMMANDS, position, MOTION_MODE, DRILL_RETRACT_MODE,
                   UNITS, dt, err, prog, emitted>>

\* lines 618-630: parse returns; "gcode += parse(obj)", post operation, coolant off
ParseReturn ==
    /\ pc = "parse"
    /\ IF out.list
       THEN \* str += list
            /\ pc' = "crashed"
            /\ err' = "TypeError"
            /\ UNCHANGED <<gcode, LINENR>>
       ELSE LET post == (IF cfg.OUTPUT_COMMENTS
                         THEN <<TextLine("(Finish operation: " \o obj.Label \o ")")>> ELSE <<>>)
                        \o BlockLines(cfg.POST_OPERATION)
                        \o CoolantOff(obj.CoolantMode)
            IN  /\ gcode' = gcode \o out.text \o Stamp(post, LINENR)
                /\ LINENR' = LinenrAfter(LINENR, Len(post))
                /\ pc' = "objects"
                /\ err' = err
    /\ out' = [list |-> FALSE, text |-> <<>>]
    /\ UNCHANGED <<inputs, SUPPRESS_COMMANDS, position, MOTION_MODE, DRILL_RETRACT_MODE,
                   UNITS, lastcommand, dt, obj, nobj, prog, emitted>>

\* lines 632-664: return-to move, postamble, the final text
ExportEnd ==
    /\ pc = "objects"
    /\ LET raws == (IF cfg.RETURN_TO
                    THEN <<Raw(<<Word("G0"), Tok("X", 0), Tok("Y", 0)>>, TRUE)>> ELSE <<>>)
                   \o BlockMarks("post_amble")
                   \o (IF cfg.OUTPUT_COMMENTS THEN <<TextLine("(Begin postamble)")>> ELSE <<>>)
                   \o BlockLines(cfg.POSTAMBLE)
       IN  /\ gcode' = gcode \o Stamp(raws, LINENR)
           /\ LINENR' = LinenrAfter(LINENR, Len(raws))
    /\ pc' = "done"
    /\ UNCHANGED <<inputs, SUPPRESS_COMMANDS, position, MOTION_MODE, DRILL_RETRACT_MODE,
                   UNITS, out, lastcommand, dt, err, obj, nobj, prog, emitted>>

\* the globals after lines 784-797 ran for command c: what drill_translate reads
GlobalsAfter(c) ==
    [X |-> Tracked(c, "X", CURRENT_X),
     Y |-> Tracked(c, "Y", CURRENT_Y),
     Z |-> Tracked(c, "Z", CURRENT_Z),
     mode |-> IF c.Name \in {"G90", "G91"} THEN c.Name ELSE MOTION_MODE,
     retract |-> IF c.Name \in {"G98", "G99"} THEN c.Name ELSE DRILL_RETRACT_MODE,
     units |-> UNITS]

\* the history record of a command: the operation it belongs to, lastcommand and
\* the globals when it was taken, the pieces it added to out, which of them is the
\* line made of its outstring (0: none), and how far it got
Entry(c, last, g, lines, main, state) ==
    [op |-> nobj, c |-> c, last |-> last, g |-> g, lines |-> lines, main |-> main,
     state |-> state]

\* lines 737-846: one iteration of parse's loop over the commands.  A peck drill
\* cycle that enters drill_translate's "while 1" is continued by PeckStep.
ParseCommand(c) ==
    /\ pc = "parse"
    /\ Len(prog) < CommandLimit(scope)
    /\ LET g == GlobalsAfter(c)
           outstring == Outstring(c, lastcommand, UNITS)
           translate == cfg.TRANSLATE_DRILL_CYCLES /\ c.Name \in DRILL_CYCLES
           head == DrillHead(outstring, c, g)
           commentAt == IF cfg.OUTPUT_COMMENTS THEN 1 ELSE 0
       IN  /\ lastcommand' = c.Name
           /\ CURRENT_X' = g.X /\ CURRENT_Y' = g.Y /\ CURRENT_Z' = g.Z
           /\ MOTION_MODE' = g.mode
           /\ DRILL_RETRACT_MODE' = g.retract
           /\ IF translate /\ head.loop
              THEN /\ dt' = [c |-> c, trBuff |-> Stamp(head.buf, LINENR),
                             last_Stop_Z |-> head.RETRACT_Z, RETRACT_Z |-> head.RETRACT_Z,
                             drill_Z |-> head.drill_Z, drill_Step |-> head.drill_Step,
                             F |-> head.F, iter |-> 0]
                   /\ LINENR' = LinenrAfter(LINENR, Len(head.buf))
                   /\ pc' = "peck"
                   /\ prog' = Append(prog, Entry(c, lastcommand, g, <<>>, commentAt, "open"))
                   /\ UNCHANGED <<out, err>>
              ELSE LET drill == IF ~translate THEN <<>>
                                ELSE head.buf \o (IF head.refused THEN <<>>
                                                  ELSE DrillRestore(g.mode))
                       tail == ParseTail(c, IF translate THEN <<>> ELSE outstring,
                                         SUPPRESS_COMMANDS)
                       lines == Stamp(drill \o tail.lines, LINENR)
                       main == IF translate THEN commentAt ELSE tail.main
                   IN  IF tail.IndexError
                       THEN /\ pc' = "crashed"
                            /\ err' = "IndexError"
                            /\ prog' = Append(prog, Entry(c, lastcommand, g, <<>>, 0, "crashed"))
                            /\ UNCHANGED <<out, LINENR, dt>>
                       ELSE /\ out' = IF tail.reset THEN [list |-> TRUE, text |-> lines]
                                      ELSE [out EXCEPT !.text = @ \o lines]
                            /\ LINENR' = LinenrAfter(LINENR, Len(lines))
                            /\ prog' = Append(prog, Entry(c, lastcommand, g, lines, main, "done"))
                            /\ UNCHANGED <<pc, err, dt>>
    /\ UNCHANGED <<inputs, SUPPRESS_COMMANDS, UNITS, gcode, obj, nobj, emitted>>

\* lines 949-991 and 803-846: one iteration of drill_translate's "while 1"; on
\* "break" the function returns and parse finishes the command
PeckStep ==
    /\ pc = "peck"
    /\ dt.iter < MaxPeck
    /\ LET it == PeckIteration(dt, UNITS)
           buf == dt.trBuff \o Stamp(it.buf, LINENR)
           nr == LinenrAfter(LINENR, Len(it.buf))
       IN  IF ~it.break
           THEN /\ dt' = [dt EXCEPT !.trBuff = buf, !.last_Stop_Z = it.last_Stop_Z,
                                    !.iter = @ + 1]
                /\ LINENR' = nr
                /\ UNCHANGED <<out, pc, prog>>
           ELSE LET restore == DrillRestore(MOTION_MODE)
                    tail == ParseTail(dt.c, <<>>, SUPPRESS_COMMANDS)
                    lines == buf \o Stamp(restore \o tail.lines, nr)
                IN  /\ out' = [out EXCEPT !.text = @ \o lines]
                    /\ LINENR' = LinenrAfter(nr, Len(restore) + Len(tail.lines))
                    /\ prog' = [prog EXCEPT ![Len(prog)].lines = lines,
                                            ![Len(prog)].state = "done"]
                    /\ dt' = NoDt
                    /\ pc' = "parse"
    /\ UNCHANGED <<inputs, SUPPRESS_COMMANDS, position, MOTION_MODE, DRILL_RETRACT_MODE,
                   UNITS, gcode, lastcommand, err, obj, nobj, emitted>>

Next ==
    \/ ExportBegin
    \/ \E o \in Operations(scope) : NextObject(o)
    \/ \E c \in Commands(scope, Len(prog)) : ParseCommand(c)
    \/ PeckStep
    \/ ParseReturn
    \/ ExportEnd

Spec == Init /\ [][Next]_vars

\* export of one drill cycle, the cycle and the globals it reads ranging widely
SpecDrill == InitDrill /\ [][Next]_vars

\* the same, the peck loop of drill_translate going on as long as it can: a loop
\* that is running takes its next iteration
SpecDrillFair == InitDrill /\ [][Next]_vars /\ WF_vars(PeckStep)

\* the program parse has gone through: the commands and the objects they are of
Program == [i \in 1..Len(prog) |-> <<prog[i].op, prog[i].c>>]

\* lines 519-531: export is called a second time.  The module globals (lines
\* 512-517, LINENR, MOTION_MODE, UNITS, DRILL_RETRACT_MODE) are as the first
\* call left them; export's and parse's locals start afresh.
ExportAgain ==
    /\ pc = "done"
    /\ first.n = 0
    /\ first' = [n |-> 1, text |-> gcode, program |-> Program, nobj |-> nobj]
    /\ gcode' = <<>>
    /\ out' = [list |-> FALSE, text |-> <<>>]
    /\ lastcommand' = None
    /\ dt' = NoDt
    /\ obj' = NoObj
    /\ nobj' = 0
    /\ prog' = <<>>
    /\ pc' = "export"
    /\ UNCHANGED <<scope, cfg, LINENR, SUPPRESS_COMMANDS, position, MOTION_MODE,
                   DRILL_RETRACT_MODE, UNITS, err, emitted>>

NextTwice == Next \/ ExportAgain

\* two exports in a row
SpecTwice == InitTwice /\ [][NextTwice]_vars

\* export of operations with and without coolant, active and inactive
SpecOps == InitOps /\ [][Next]_vars

\* export of operations that switch units
SpecUnits == InitUnits /\ [][Next]_vars

\* export with a configured suppression set
SpecSuppress == InitSuppress /\ [][Next]_vars

\* the text exported so far
Text == gcode \o out.text

-----------------------------------------------------------------------------
(* PostProcessorBase: the command emitter (lines 225-422).  self is the     *)
(* instance: [units, lineNumber, LINE_NUMBERS].  A call's result is         *)
(* [kind |-> "line", line |-> piece], [kind |-> "error", error |-> name]    *)
(* for a raised exception, or [kind |-> "None"] for a call that returns     *)
(* nothing.  The class defines formatCommand twice; the model reads them as *)
(* the two functions their callers mean: formatCommandOrder (command,       *)
(* order) and formatCommand (command).                                      *)

LINE_NUMBER_INCREMENT == 10

\* class Format: each template a sequence of <<letter, kind>>, in dict order
XYZ == << <<"X", "Position">>, <<"Y", "Position">>, <<"Z", "Position">> >>
ABC == << <<"A", "Rotation">>, <<"B", "Rotation">>, <<"C", "Rotation">> >>
IJK == << <<"I", "Arc">>, <<"J", "Arc">>, <<"K", "Arc">> >>
R == << <<"R", "Radius">> >>
F == << <<"F", "Feed">> >>

Letters(order) == { order[i][1] : i \in 1..Len(order) }

Line(piece) == [kind |-> "line", line |-> piece]
Raise(e) == [kind |-> "error", error |-> e]

\* PostProcessorBase.line(command): the piece, and lineNumber afterwards
line(self, toks) ==
    [num |-> IF self.LINE_NUMBERS THEN <<self.lineNumber>> ELSE <<>>, toks |-> toks,
     nl |-> TRUE]
LineNumberAfter(self) ==
    IF self.LINE_NUMBERS THEN self.lineNumber + LINE_NUMBER_INCREMENT ELSE self.lineNumber

\* formatFloat: 'format(".%sf" % self.PRECISION, value)' passes the number as the
\* format specification: format() raises TypeError
formatFloat(value) == Raise("TypeError")

\* formatParameter (lines 275-295): the token, or the exception raised
formatParameter(self, param, value, format) ==
    IF format = "Feed"
    THEN IF SpeedValue(value, self.units) <= 0 THEN Raise("InvalidFeedRate")
         ELSE formatFloat(SpeedValue(value, self.units))
    ELSE IF format \in {"Position", "Arc", "Radius"}
    THEN formatFloat(FormatLength(value, self.units))
    ELSE formatFloat(value)

\* "for param in command.Parameters.items(): if param not in order": param is a
\* (letter, value) pair and order's keys are letters, here 1-tuples
Items(P) == { <<k, P[k]>> : k \in DOMAIN P }
KeyObjects(order) == { <<k>> : k \in Letters(order) }
UnexpectedParameter(command, order) ==
    \E param \in Items(command.Parameters) : param \notin KeyObjects(order)

\* "value = command.Parameters.get(param); if not value: continue"
Skipped(command, param) ==
    \/ param \notin DOMAIN command.Parameters
    \/ command.Parameters[param] = 0

\* formatCommand(self, command, order) (lines 310-322)
formatCommandOrder(self, command, order) ==
    IF UnexpectedParameter(command, order) THEN Raise("UnexpectedParameter")
    ELSE LET used == SelectSeq(order, LAMBDA o : ~Skipped(command, o[1]))
             toks == [i \in 1..Len(used) |->
                        formatParameter(self, used[i][1], command.Parameters[used[i][1]],
                                        used[i][2])]
             failed == { i \in 1..Len(used) : toks[i].kind = "error" }
         IN  IF failed # {}
             THEN toks[CHOOSE i \in failed : \A j \in failed : i <= j]
             ELSE Line(line(self, <<Word(command.Name)>> \o [i \in 1..Len(used) |-> toks[i].tok]))

moveRapid(self, command) == formatCommandOrder(self, command, XYZ \o ABC \o F)
moveLinear(self, command) == formatCommandOrder(self, command, XYZ \o ABC \o F)
moveArc(self, command) == formatCommandOrder(self, command, XYZ \o ABC \o IJK \o R \o F)

\* dwell (lines 331-335); '"P" not in command' is read as a test of the
\* command's parameters
dwell(self, command) ==
    IF "P" \notin DOMAIN command.Parameters THEN Raise("ExpectedP")
    ELSE Line(line(self, <<Word(command.Name), Tok("P", command.Parameters["P"])>>))

\* switchUnit / switchMode (lines 337-361): "command == <str>" compares the
\* command object with a string and is never true, so no tracker changes
switchUnit(self, command) ==
    IF DOMAIN command.Parameters # {} THEN Raise("UnexpectedParameters")
    ELSE Line(line(self, <<Word(command.Name)>>))
switchMode(self, command) ==
    IF DOMAIN command.Parameters # {} THEN Raise("UnexpectedParameters")
    ELSE Line(line(self, <<Word(command.Name)>>))

\* formatCommand(self, command) (lines 363-375)
formatCommand(self, command) ==
    IF command.Name \in RAPID_MOVES THEN moveRapid(self, command)
    ELSE IF command.Name \in LINEAR_COMMANDS THEN moveLinear(self, command)
    ELSE IF command.Name \in ARC_COMMANDS THEN moveArc(self, command)
    ELSE IF command.Name \in DWELL_COMMANDS THEN dwell(self, command)
    ELSE IF command.Name \in UNIT_COMMANDS THEN switchUnit(self, command)
    ELSE IF command.Name \in MODE_COMMANDS THEN switchMode(self, command)
    ELSE [kind |-> "None"]

\* calls of formatCommand per run
MaxEmit == 2

EmitParameters ==
    { NoParams, ("X" :> mm(1)), ("X" :> 0),
      ("X" :> mm(1)) @@ ("Y" :> mm(2)) @@ ("Z" :> mm(3)),
      ("X" :> mm(1)) @@ ("F" :> mm(2)), ("X" :> mm(1)) @@ ("F" :> 0),
      ("X" :> mm(1)) @@ ("F" :> mm(-1)), ("X" :> mm(1)) @@ ("Q" :> mm(1)),
      ("X" :> mm(1)) @@ ("I" :> mm(1)) @@ ("R" :> mm(1)) @@ ("F" :> mm(2)),
      ("P" :> 1) }
EmitCommands ==
    { Cmd(n, P) : n \in {"G0", "G1", "G2", "G4", "G21", "G90", "G38.2", "M3"},
                  P \in EmitParameters }

InitEmit ==
    /\ scope = "emit"
    /\ cfg = Config(FALSE, FALSE, FALSE, FALSE, FALSE)
    /\ LINENR = LINE_NUMBER_START
    /\ SUPPRESS_COMMANDS = <<>>
    /\ CURRENT_X = 0 /\ CURRENT_Y = 0 /\ CURRENT_Z = 0
    /\ MOTION_MODE = "G90" /\ DRILL_RETRACT_MODE = "G98" /\ UNITS = "G21"
    /\ gcode = <<>> /\ out = [list |-> FALSE, text |-> <<>>] /\ lastcommand = None
    /\ dt = NoDt /\ pc = "emit" /\ err = "" /\ obj = NoObj /\ nobj = 0 /\ prog = <<>>
    /\ first = NoFirst
    /\ \E u \in {"G21", "G20"}, numbers \in BOOLEAN :
          emitted = [n |-> 0,
                     self |-> [units |-> u, lineNumber |-> LINE_NUMBER_START,
                               LINE_NUMBERS |-> numbers],
                     command |-> Cmd("", NoParams), result |-> [kind |-> "None"]]

\* one call self.formatCommand(command); an exception ends the run
Emit(command) ==
    /\ pc = "emit"
    /\ emitted.n < MaxEmit
    /\ emitted.result.kind # "error"
    /\ LET result == formatCommand(emitted.self, command)
       IN  emitted' = [n |-> emitted.n + 1,
                       self |-> IF result.kind = "line"
                                THEN [emitted.self EXCEPT !.lineNumber = LineNumberAfter(emitted.self)]
                                ELSE emitted.self,
                       command |-> command, result |-> result]
    /\ UNCHANGED <<inputs, LINENR, SUPPRESS_COMMANDS, position, MOTION_MODE,
                   DRILL_RETRACT_MODE, UNITS, gcode, out, lastcommand, dt, pc, err, obj,
                   nobj, prog>>

NextEmit == \E command \in EmitCommands : Emit(command)

\* a series of PostProcessorBase.formatCommand calls
SpecEmit == InitEmit /\ [][NextEmit]_vars

\* the operations the class is given: op.CoolantMode set, or the attribute absent
\* (no record field)
ClassOperations ==
    { Operation("Op", TRUE, "None"), Operation("Wet", TRUE, "Flood"),
      Operation("Fog", TRUE, "Mist"), [Label |-> "Bare", Active |-> TRUE] }

\* comment (lines 403-404): a line that holds the text in parentheses
comment(self, text) == line(self, <<Word("(" \o text \o ")")>>)

\* processCoolantMode (lines 245-273).  coolantMode is <<>> for Python's None,
\* <<mode>> otherwise; "if coolantMode:" is true of every non-empty string, the
\* string "None" included
coolantModeOf(op) == IF "CoolantMode" \in DOMAIN op THEN <<op.CoolantMode>> ELSE <<>>
start_coolant(coolantMode) ==
    IF coolantMode # <<>>
    THEN (IF cfg.OUTPUT_COMMENTS THEN <<Word("(Coolant On: " \o coolantMode[1] \o ")")>> ELSE <<>>)
         \o (IF coolantMode[1] = "Flood" THEN <<Word("M8")>> ELSE <<>>)
         \o (IF coolantMode[1] = "Mist" THEN <<Word("M7")>> ELSE <<>>)
    ELSE <<>>
stop_coolant(coolantMode) ==
    IF coolantMode # <<>>
    THEN (IF cfg.OUTPUT_COMMENTS THEN <<Word("(Coolant Off: " \o coolantMode[1] \o ")")>> ELSE <<>>)
         \o <<Word("M9")>>
    ELSE <<>>

\* the lines self.line makes of a series of words, numbered from self.lineNumber
ClassLines(self, words) ==
    [i \in 1..Len(words) |->
        line([self EXCEPT !.lineNumber = @ + (i - 1) * LINE_NUMBER_INCREMENT], <<words[i]>>)]

InitCoolant ==
    /\ scope = "coolant"
    /\ cfg \in { Config(FALSE, FALSE, c, FALSE, FALSE) : c \in BOOLEAN }
    /\ LINENR = LINE_NUMBER_START
    /\ SUPPRESS_COMMANDS = <<>>
    /\ CURRENT_X = 0 /\ CURRENT_Y = 0 /\ CURRENT_Z = 0
    /\ MOTION_MODE = "G90" /\ DRILL_RETRACT_MODE = "G98" /\ UNITS = "G21"
    /\ gcode = <<>> /\ out = [list |-> FALSE, text |-> <<>>] /\ lastcommand = None
    /\ dt = NoDt /\ pc = "emit" /\ err = "" /\ obj = NoObj /\ nobj = 0 /\ prog = <<>>
    /\ first = NoFirst
    /\ \E u \in {"G21", "G20"}, numbers \in BOOLEAN :
          emitted = [n |-> 0,
                     self |-> [units |-> u, lineNumber |-> LINE_NUMBER_START,
                               LINE_NUMBERS |-> numbers],
                     command |-> Cmd("", NoParams), result |-> [kind |-> "None"]]

\* processOperation (lines 378-401) for an operation with an empty path: the
\* begin comment, the coolant on, the coolant off, the finish comment, each added
\* to the text; out keeps the part of the operation
processOperation(op) ==
    /\ pc = "emit"
    /\ nobj < MaxOps
    /\ LET coolantMode == coolantModeOf(op)
           words == (IF cfg.OUTPUT_COMMENTS
                     THEN <<Word("(Begin operation: " \o op.Label \o ")")>> ELSE <<>>)
                    \o start_coolant(coolantMode)
                    \o stop_coolant(coolantMode)
                    \o (IF cfg.OUTPUT_COMMENTS
                        THEN <<Word("(Finish operation: " \o op.Label \o ")")>> ELSE <<>>)
           lines == ClassLines(emitted.self, words)
       IN  /\ out' = [list |-> FALSE, text |-> lines]
           /\ gcode' = gcode \o lines
           /\ emitted' = [emitted EXCEPT !.self.lineNumber =
                             IF emitted.self.LINE_NUMBERS
                             THEN @ + Len(words) * LINE_NUMBER_INCREMENT ELSE @]
    /\ obj' = op
    /\ nobj' = nobj + 1
    /\ UNCHANGED <<inputs, LINENR, SUPPRESS_COMMANDS, position, MOTION_MODE,
                   DRILL_RETRACT_MODE, UNITS, lastcommand, dt, pc, err, prog>>

NextCoolant == \E op \in ClassOperations : processOperation(op)

\* PostProcessorBase going through the operations of a job
SpecCoolant == InitCoolant /\ [][NextCoolant]_vars

-----------------------------------------------------------------------------
(* Reading the text *)

\* the first word of a piece ("" for an empty one)
First(p) == IF p.toks = <<>> THEN "" ELSE p.toks[1][1]
\* a motion line: a rapid, a linear move or a dwell
IsMotion(p) == First(p) \in {"G0", "G1", "G4"}
Motion(lines) == SelectSeq(lines, IsMotion)
Toks(lines) == [k \in 1..Len(lines) |-> lines[k].toks]
\* whether a piece holds the mnemonic, bare or behind an opening parenthesis
Contains(p, name) == \E k \in 1..Len(p.toks) : p.toks[k][1] \in {name, "(" \o name}
\* the parameter letters of a piece, in the order printed
LettersOf(p) ==
    LET ts == SelectSeq(p.toks, LAMBDA t : Len(t) = 2) IN [k \in 1..Len(ts) |-> ts[k][1]]
\* "G<n> Z<z>": the Z of a move that has Z as its first parameter
IsZMove(p, g) == First(p) = g /\ Len(p.toks) >= 2 /\ p.toks[2][1] = "Z"
ZOf(p) == p.toks[2][2]
\* the pieces that start a line of the text, and the line count up to a piece
LineStarts(t) == { i \in 1..Len(t) : i = 1 \/ t[i - 1].nl }
LineNo(t, i) == Cardinality({ j \in LineStarts(t) : j <= i })
Diagnostic(p) == p.toks = <<Word("(drill cycle error: R less than Z )")>>
Translated(e) == cfg.TRANSLATE_DRILL_CYCLES /\ e.c.Name \in DRILL_CYCLES

-----------------------------------------------------------------------------
(* Claims *)

\* C1 (as claimed): with line numbering enabled, the Nth line of the exported text
\* carries the prefix N<S + I*(N-1)>, and as many numbers were consumed as lines
\* were emitted.
C1_LineNumbers ==
    (pc = "done" /\ cfg.OUTPUT_LINE_NUMBERS) =>
        /\ \A i \in LineStarts(gcode) :
              gcode[i].num = <<LINE_NUMBER_START + LINEINCR * (LineNo(gcode, i) - 1)>>
        /\ LINENR = LINE_NUMBER_START + LINEINCR * Cardinality(LineStarts(gcode))

C3_Rejected ==
    \A i \in 1..Len(prog) :
        LET e == prog[i] IN
        (Translated(e) /\ e.c.Parameters["R"] < e.c.Parameters["Z"]) =>
            /\ e.state = "done"
            /\ Motion(e.lines) = <<>>
            /\ Cardinality({ k \in 1..Len(e.lines) : Diagnostic(e.lines[k]) }) = 1
            /\ pc \notin {"peck", "crashed"}

C3_Witness ==
    /\ pc = "done" /\ Len(prog) = 2
    /\ prog[1].c.Name = "G83" /\ prog[1].c.Parameters["R"] < prog[1].c.Parameters["Z"]
    /\ \E k \in 1..Len(prog[1].lines) : Diagnostic(prog[1].lines[k])
    /\ prog[2].state = "done" /\ Motion(prog[2].lines) # <<>>

\* the plain drill cycle of C4: G81 to Z=-10 with R=5, from tracked Z=20, in
\* absolute mode, output in millimetres
PlainDrillCase(e) ==
    /\ Translated(e) /\ e.state = "done"
    /\ e.c.Name = "G81" /\ e.c.Parameters["Z"] = mm(-10) /\ e.c.Parameters["R"] = mm(5)
    /\ e.g.Z = mm(20) /\ e.g.mode = "G90" /\ e.g.units = "G21"
\* the F token of an expansion in mm/min, ".2f": 60 s/min, hundredths of thousandths
FeedTok(e) == Tok("F", 6 * e.c.Parameters["F"])

\* C4 (as claimed): that cycle expands to exactly: rapid to X/Y, linear plunge to
\* Z=-10 at the cycle's feed, rapid retract to Z=5.
C4_Original ==
    \A i \in 1..Len(prog) :
        LET e == prog[i] IN
        PlainDrillCase(e) =>
            Toks(Motion(e.lines)) =
                << <<Word("G0"), Tok("X", 5000), Tok("Y", 5000)>>,
                   <<Word("G1"), Tok("Z", -10000), FeedTok(e)>>,
                   <<Word("G0"), Tok("Z", 5000)>> >>

\* C4 (amended): that cycle expands, with no preliminary rapid retract, to exactly:
\* in G99 mode a rapid to X/Y, a linear move down to the retract height Z=5 at the
\* cycle's feed, the linear plunge to Z=-10 and a rapid retract to Z=5; in G98 mode
\* a rapid to X/Y, the linear plunge to Z=-10 and a rapid retract to the tracked
\* Z=20.
C4_PlainDrill ==
    \A i \in 1..Len(prog) :
        LET e == prog[i] IN
        PlainDrillCase(e) =>
            Toks(Motion(e.lines)) =
                IF e.g.retract = "G99"
                THEN << <<Word("G0"), Tok("X", 5000), Tok("Y", 5000)>>,
                        <<Word("G1"), Tok("Z", 5000), FeedTok(e)>>,
                        <<Word("G1"), Tok("Z", -10000), FeedTok(e)>>,
                        <<Word("G0"), Tok("Z", 5000)>> >>
                ELSE << <<Word("G0"), Tok("X", 5000), Tok("Y", 5000)>>,
                        <<Word("G1"), Tok("Z", -10000), FeedTok(e)>>,
                        <<Word("G0"), Tok("Z", 20000)>> >>

C4_Witness ==
    \E i \in 1..Len(prog) :
        /\ PlainDrillCase(prog[i]) /\ prog[i].g.retract = "G98"
        /\ prog[i].c.Parameters["F"] = mm(2)
        /\ Len(Motion(prog[i].lines)) = 3

\* a peck drill cycle with a positive step and R >= Z, fully expanded
PeckCase(e) ==
    /\ Translated(e) /\ e.state = "done" /\ e.c.Name = "G83"
    /\ e.c.Parameters["Q"] > 0 /\ e.c.Parameters["R"] >= e.c.Parameters["Z"]
\* the retract height and the hole bottom of a cycle in absolute terms
RetractOf(e) ==
    LET r == e.c.Parameters["R"] + (IF e.g.mode = "G91" THEN e.g.Z ELSE 0)
    IN  IF e.g.retract = "G98" /\ e.g.Z >= r THEN e.g.Z ELSE r
BottomOf(e) == e.c.Parameters["Z"] + (IF e.g.mode = "G91" THEN e.g.Z ELSE 0)
\* the expansion after its preliminary moves (the G90 line, the rapid to the
\* retract height, the rapid to X/Y, the linear move down to the retract height),
\* without the mode restore
PeckBody(e) ==
    LET xy == CHOOSE k \in 1..Len(e.lines) :
                  First(e.lines[k]) = "G0" /\ e.lines[k].toks[2][1] = "X"
        from == xy + 1 + (IF e.g.Z > RetractOf(e) THEN 1 ELSE 0)
    IN  SelectSeq(SubSeq(e.lines, from, Len(e.lines)), LAMBDA p : First(p) # "G91")
Stops(e) ==
    LET pl == SelectSeq(PeckBody(e), LAMBDA p : First(p) = "G1")
    IN  [k \in 1..Len(pl) |-> ZOf(pl[k])]
\* stops strictly decreasing, none below the bottom, every plunge followed at once
\* by a rapid to height h, the last plunge to the bottom and nothing after its retract
PeckShape(e, h) ==
    LET body == PeckBody(e)
        stops == Stops(e)
        bottom == FormatLength(BottomOf(e), e.g.units)
    IN  /\ Len(stops) >= 1
        /\ \A j, k \in 1..Len(stops) : j < k => stops[j] > stops[k]
        /\ \A k \in 1..Len(stops) : stops[k] >= bottom
        /\ stops[Len(stops)] = bottom
        /\ \A k \in 1..Len(body) :
              First(body[k]) = "G1" =>
                  /\ k < Len(body)
                  /\ body[k + 1].toks = <<Word("G0"), Tok("Z", FormatLength(h, e.g.units))>>
        /\ IsZMove(body[Len(body) - 1], "G1") /\ ZOf(body[Len(body) - 1]) = bottom
\* the example: depth -10, step 3, retract 5, absolute mode, millimetres
PeckExample(e) ==
    /\ e.c.Parameters["Z"] = mm(-10) /\ e.c.Parameters["Q"] = mm(3)
    /\ e.c.Parameters["R"] = mm(5) /\ e.g.mode = "G90" /\ e.g.units = "G21"

\* C5 (as claimed): the plunges of such a cycle stop at strictly decreasing depths,
\* none below Z, each followed at once by a rapid to the retract height R, the last
\* one exactly at Z and followed by one retract; for depth -10, step 3, retract 5
\* the stops are 2, -1, -4, -7, -10.
C5_Original ==
    \A i \in 1..Len(prog) :
        LET e == prog[i] IN
        PeckCase(e) =>
            /\ PeckShape(e, e.c.Parameters["R"] + (IF e.g.mode = "G91" THEN e.g.Z ELSE 0))
            /\ PeckExample(e) => Stops(e) = <<2000, -1000, -4000, -7000, -10000>>

\* C5 (amended): the same with the retract height the expansion uses: R, or in
\* G98 mode with the tracked Z at or above R the tracked Z.  For depth -10, step 3,
\* retract 5 the stops are 2, -1, -4, -7, -10 when that height is 5 (G99 mode, or
\* tracked Z below 5); from tracked Z=20 in G98 mode they are 17, 14, ..., -7, -10.
C5_PeckStops ==
    \A i \in 1..Len(prog) :
        LET e == prog[i] IN
        PeckCase(e) =>
            /\ PeckShape(e, RetractOf(e))
            /\ (PeckExample(e) /\ (e.g.retract = "G99" \/ e.g.Z < mm(5))) =>
                  Stops(e) = <<2000, -1000, -4000, -7000, -10000>>
            /\ (PeckExample(e) /\ e.g.retract = "G98" /\ e.g.Z = mm(20)) =>
                  Stops(e) = <<17000, 14000, 11000, 8000, 5000, 2000, -1000, -4000,
                               -7000, -10000>>

C5_Witness ==
    \E i \in 1..Len(prog) :
        /\ PeckCase(prog[i]) /\ PeckExample(prog[i]) /\ prog[i].g.retract = "G99"
        /\ prog[i].g.Z = mm(20) /\ Len(Stops(prog[i])) = 5

\* C6 (as claimed): a peck drill cycle with Q = 0 and R >= Z expands to a single
\* plunge: exactly one linear move to the hole bottom Z, followed by a rapid
\* retract.
C6_ZeroPeck ==
    \A i \in 1..Len(prog) :
        LET e == prog[i]
            plunges == { k \in 1..Len(e.lines) :
                           /\ IsZMove(e.lines[k], "G1")
                           /\ ZOf(e.lines[k]) = FormatLength(BottomOf(e), e.g.units)
                           /\ k < Len(e.lines) /\ IsZMove(e.lines[k + 1], "G0") }
        IN  (Translated(e) /\ e.state = "done" /\ e.c.Name = "G83"
             /\ e.c.Parameters["Q"] = 0 /\ e.c.Parameters["R"] >= e.c.Parameters["Z"]) =>
                Cardinality(plunges) = 1

\* C7 (as claimed): emitting a command that carries a feed F whose converted value
\* is <= 0 fails with InvalidFeedRate; no line is produced for it.
C7_InvalidFeed ==
    \A i \in 1..Len(prog) :
        LET e == prog[i] IN
        ("F" \in DOMAIN e.c.Parameters /\ e.state # "open"
         /\ SpeedValue(e.c.Parameters["F"], e.g.units) <= 0) =>
            e.state = "crashed" /\ err = "InvalidFeedRate"

\* the letters of the move classes' templates, in canonical order
Canonical == [i \in 1..Len(XYZ \o ABC \o IJK \o R \o F) |-> (XYZ \o ABC \o IJK \o R \o F)[i][1]]
Present(c) == SelectSeq(Canonical, LAMBDA l : l \in DOMAIN c.Parameters)

\* C8 (as claimed): the line emitted for a move whose parameters are all recognized
\* holds exactly one token per parameter present (zero values and F included), in
\* the order X,Y,Z,A,B,C,I,J,K,R,F.
C8_CanonicalOrder ==
    \A i \in 1..Len(prog) :
        LET e == prog[i] IN
        (e.state = "done" /\ e.c.Name \in RAPID_MOVES \cup LINEAR_COMMANDS
         /\ DOMAIN e.c.Parameters \subseteq { Canonical[k] : k \in 1..Len(Canonical) }) =>
            /\ e.main # 0
            /\ LettersOf(e.lines[e.main]) = Present(e.c)

\* the template of a move class
Template(name) ==
    IF name \in ARC_COMMANDS THEN XYZ \o ABC \o IJK \o R \o F ELSE XYZ \o ABC \o F
MOVES == RAPID_MOVES \cup LINEAR_COMMANDS \cup ARC_COMMANDS

\* C9 (as claimed): emitting a move fails with UnexpectedParameter if and only if
\* one of its parameter letters is outside the template of its class.
C9_UnexpectedIff ==
    (emitted.n > 0 /\ emitted.command.Name \in MOVES) =>
        (emitted.result = Raise("UnexpectedParameter")
            <=> \E l \in DOMAIN emitted.command.Parameters :
                    l \notin Letters(Template(emitted.command.Name)))

\* C10 (as claimed): emitting a command whose mnemonic is in none of the recognized
\* classes returns one line: the mnemonic followed by one token per parameter.
C10_PassThrough ==
    (emitted.n > 0
     /\ emitted.command.Name \notin MOVES \cup DWELL_COMMANDS \cup UNIT_COMMANDS
                                     \cup MODE_COMMANDS) =>
        /\ emitted.result.kind = "line"
        /\ First(emitted.result.line) = emitted.command.Name
        /\ { LettersOf(emitted.result.line)[k] : k \in 1..Len(LettersOf(emitted.result.line)) }
               = DOMAIN emitted.command.Parameters

\* the pieces of a command's output that are wrapped in one pair of comment
\* delimiters: "(" first, ")" last, neither in between
Delimited(p) ==
    /\ Len(p.toks) >= 2
    /\ p.toks[1] = Word("(") /\ p.toks[Len(p.toks)] = Word(")")
    /\ \A k \in 2..(Len(p.toks) - 1) : p.toks[k] \notin {Word("("), Word(")")}

\* C11 (as claimed): a command whose mnemonic is in the suppression set yields
\* exactly one line wrapped in one pair of comment delimiters, and no executable
\* line that starts with its mnemonic, whatever the modal, spindle-wait and
\* tool-change options are.
C11_Suppressed ==
    \A i \in 1..Len(prog) :
        LET e == prog[i] IN
        (e.state = "done" /\ Suppressed(e.c.Name, SUPPRESS_COMMANDS)) =>
            /\ Cardinality({ k \in 1..Len(e.lines) : Delimited(e.lines[k]) }) = 1
            /\ \A k \in 1..Len(e.lines) : First(e.lines[k]) # e.c.Name

\* the pieces that name an operation by its label
Mentions(p, label) ==
    p.toks \in { <<Word("(Begin operation: " \o label \o ")")>>,
                 <<Word("(Finish operation: " \o label \o ")")>>,
                 <<Word("(Path: " \o label \o ")")>>,
                 <<Word("(Block-name: " \o label \o ")")>>,
                 <<Word("(Coolant On:" \o label \o ")")>> }
OperationBegins == { k \in 1..Len(gcode) :
                       \E o \in Operations(scope) :
                           gcode[k].toks = <<Word("(Begin operation: " \o o.Label \o ")")>> }

\* C12: an inactive operation contributes nothing: the step that takes an object
\* of the program either starts an active operation or leaves the text, the line
\* counter and the modal state (units, motion mode, drill-retract mode, position)
\* as they were, and no piece of the text names an inactive operation.
C12_InactiveSkipped ==
    /\ [](\A k \in 1..Len(Text) : \A o \in Operations(scope) :
              ~o.Active => ~Mentions(Text[k], o.Label))
    /\ [][nobj' # nobj =>
            \/ obj'.Active /\ pc' = "parse"
            \/ UNCHANGED <<gcode, out, LINENR, SUPPRESS_COMMANDS, position, MOTION_MODE,
                           DRILL_RETRACT_MODE, UNITS, lastcommand, pc>>]_vars

C12_Witness ==
    /\ pc = "done" /\ nobj = 2 /\ cfg.OUTPUT_COMMENTS
    /\ Cardinality(OperationBegins) = 1
    /\ Len(prog) = 2 /\ prog[1].op = 2

\* the blocks of an operation in the text
IsPre(p) == p.toks = <<Word("G54")>>
IsPost(p) == p.toks = <<Word("G53")>>
IsCoolantOn(p) == p.toks \in {<<Word("M8")>>, <<Word("M7")>>}
IsCoolantOff(p) == p.toks = <<Word("M9")>>
IsBody(p) ==
    /\ First(p) \in {"G0", "G1", "G90", "G91"}
    /\ p.toks # <<Word("G0"), Tok("X", 0), Tok("Y", 0)>>
\* where the operation that begins at a ends: before the next one's pre-operation
\* text, or with the text
SegmentEnd(a) ==
    LET later == { k \in (a + 1)..Len(gcode) : IsPre(gcode[k]) }
    IN  IF later = {} THEN Len(gcode) ELSE (CHOOSE k \in later : \A j \in later : k <= j) - 1

\* C13 (as claimed): for every active operation the blocks appear in the order
\* pre-operation text, coolant-on, command lines, coolant-off, post-operation text.
C13_BlockOrder ==
    pc = "done" =>
        \A a \in { k \in 1..Len(gcode) : IsPre(gcode[k]) } :
            LET seg == a..SegmentEnd(a)
                on == { k \in seg : IsCoolantOn(gcode[k]) }
                off == { k \in seg : IsCoolantOff(gcode[k]) }
                post == { k \in seg : IsPost(gcode[k]) }
                body == { k \in seg : IsBody(gcode[k]) }
            IN  /\ post # {}
                /\ \A k \in on : a < k /\ \A j \in body \cup off \cup post : k < j
                /\ \A k \in body : \A j \in off \cup post : k < j
                /\ \A k \in off : \A j \in post : k < j

\* C14 (as claimed): exporting the same program with the same configuration twice
\* in a row (header disabled) yields the same text both times.
C14_Identical ==
    (pc = "done" /\ first.n = 1 /\ first.program = Program /\ first.nobj = nobj) =>
        gcode = first.text

\* C15 (as claimed): every line of the exported text ends with exactly one line
\* terminator and none is empty: every piece written, the mode restore after a
\* drill cycle in relative mode included, is a line of its own.
C15_Terminated ==
    pc = "done" =>
        \A i \in 1..Len(gcode) : gcode[i].nl /\ gcode[i].toks # <<>>

CeilDiv(a, b) == (a + b - 1) \div b
Max(a, b) == IF a >= b THEN a ELSE b
\* the depth the peck loop has still to go
Remaining == dt.last_Stop_Z - dt.drill_Z
PeckRuns == pc = "peck" /\ dt.drill_Step > 0
\* every iteration but the last brings the loop nearer to the hole bottom
PeckDescends == [][(PeckRuns /\ pc' = "peck") => (Remaining' < Remaining /\ Remaining' > 0)]_vars

\* C16 (as claimed): for a peck drill cycle with Q > 0 and R >= Z the peck loop
\* terminates after at most ceil((R - Z)/Q) plunges, the remaining depth
\* decreasing strictly at every iteration.
C16_Original ==
    /\ [](\A i \in 1..Len(prog) :
              PeckCase(prog[i]) =>
                  Len(Stops(prog[i])) <= CeilDiv(prog[i].c.Parameters["R"] - prog[i].c.Parameters["Z"],
                                                 prog[i].c.Parameters["Q"]))
    /\ PeckDescends
    /\ PeckRuns ~> (pc # "peck")

\* C16 (amended): for a peck drill cycle with Q > 0 and R >= Z the peck loop
\* terminates after at most max(1, ceil((H - Z)/Q)) plunges, where H is the retract
\* height the expansion uses (R, or the tracked Z when the drill-retract mode is
\* G98 and the tracked Z is at or above R); the remaining depth decreases strictly
\* at every iteration.
C16_PeckTerminates ==
    /\ [](\A i \in 1..Len(prog) :
              PeckCase(prog[i]) =>
                  Len(Stops(prog[i])) <= Max(1, CeilDiv(RetractOf(prog[i]) - BottomOf(prog[i]),
                                                        prog[i].c.Parameters["Q"])))
    /\ PeckDescends
    /\ PeckRuns ~> (pc # "peck")

C16_Witness ==
    \E i \in 1..Len(prog) :
        /\ PeckCase(prog[i]) /\ prog[i].c.Parameters["Q"] = mm(3)
        /\ prog[i].g.retract = "G98" /\ prog[i].g.Z = mm(20) /\ prog[i].g.mode = "G90"
        /\ Len(Stops(prog[i])) = 10

\* an expanded drill cycle: translated, not refused, gone through
Expanded(e) ==
    /\ Translated(e) /\ e.state = "done"
    /\ e.c.Parameters["R"] >= e.c.Parameters["Z"]
\* the retracts of an expansion: the rapid Z moves that follow a plunge or a dwell
Retracts(e) ==
    { k \in 2..Len(e.lines) :
        IsZMove(e.lines[k], "G0") /\ First(e.lines[k - 1]) \in {"G1", "G4"} }

\* C17: every retract of a drill-cycle expansion goes to the tracked Z when the
\* drill-retract mode is G98 and the tracked Z at cycle start is at or above the
\* resolved retract height (retract height = max(R, current Z)), and to the
\* resolved R otherwise, in particular always in G99 mode; a plain or dwell cycle
\* has such a retract.
C17_RetractHeight ==
    \A i \in 1..Len(prog) :
        LET e == prog[i]
            r == e.c.Parameters["R"] + (IF e.g.mode = "G91" THEN e.g.Z ELSE 0)
            h == IF e.g.retract = "G98" /\ e.g.Z >= r THEN Max(r, e.g.Z) ELSE r
        IN  Expanded(e) =>
                /\ \A k \in Retracts(e) : ZOf(e.lines[k]) = FormatLength(h, e.g.units)
                /\ e.c.Name \in {"G81", "G82"} => Retracts(e) # {}

C17_Witness ==
    \E i \in 1..Len(prog) :
        /\ Expanded(prog[i]) /\ prog[i].c.Name = "G82"
        /\ prog[i].g.retract = "G98" /\ prog[i].g.Z = mm(20) /\ prog[i].g.mode = "G90"
        /\ prog[i].g.units = "G21" /\ prog[i].c.Parameters["R"] = mm(5)
        /\ \E k \in Retracts(prog[i]) : ZOf(prog[i].lines[k]) = 20000

\* the motion lines of an expansion, by position, and its rapid to the hole X/Y
MotionAt(e) == { k \in 1..Len(e.lines) : IsMotion(e.lines[k]) }
IsXYRapid(p) == First(p) = "G0" /\ Len(p.toks) = 3 /\ p.toks[2][1] = "X" /\ p.toks[3][1] = "Y"
\* a line of its own that holds the one word w
IsLine(p, w) == p.toks = <<Word(w)>> /\ p.nl
\* the coordinates of the motion lines are the cycle's, the tracked position added
AbsoluteMoves(e) ==
    LET P == e.c.Parameters IN
    /\ \A k \in MotionAt(e) :
          /\ IsXYRapid(e.lines[k]) =>
                e.lines[k].toks = <<Word("G0"), Tok("X", FormatLength(P["X"] + e.g.X, e.g.units)),
                                    Tok("Y", FormatLength(P["Y"] + e.g.Y, e.g.units))>>
          /\ (IsZMove(e.lines[k], "G0") \/ IsZMove(e.lines[k], "G1")) =>
                /\ ZOf(e.lines[k]) >= FormatLength(P["Z"] + e.g.Z, e.g.units)
                /\ ZOf(e.lines[k]) <= FormatLength(RetractOf(e), e.g.units)
    /\ (e.c.Name \in {"G81", "G82"} \/ P["Q"] > 0) =>
          \E k \in MotionAt(e) :
              /\ IsZMove(e.lines[k], "G1")
              /\ ZOf(e.lines[k]) = FormatLength(P["Z"] + e.g.Z, e.g.units)
    /\ \E k \in MotionAt(e) : IsXYRapid(e.lines[k])

\* C18 (as claimed): a drill cycle expanded in relative mode (G91) has X, Y, Z and R
\* resolved by adding the tracked position, a G90 line before its first motion line
\* and a G91 line after its last, absolute coordinates on every motion line in
\* between, and leaves the tracked move mode as it was; in absolute mode the
\* expansion holds neither G90 nor G91.
C18_RelativeCycle ==
    \A i \in 1..Len(prog) :
        LET e == prog[i] IN
        Expanded(e) =>
            IF e.g.mode = "G91"
            THEN /\ MotionAt(e) # {}
                 /\ \E k \in 1..Len(e.lines) :
                        IsLine(e.lines[k], "G90") /\ \A m \in MotionAt(e) : k < m
                 /\ \E k \in 1..Len(e.lines) :
                        IsLine(e.lines[k], "G91") /\ \A m \in MotionAt(e) : m < k
                 /\ AbsoluteMoves(e)
                 /\ i = Len(prog) => MOTION_MODE = "G91"
            ELSE \A k \in 1..Len(e.lines) : First(e.lines[k]) \notin {"G90", "G91"}

\* C19: in a drill-cycle expansion the one rapid to the hole X/Y comes when the
\* tool is at or above the retract height: with the tracked Z below the retract
\* height a rapid Z move to the retract height is the only motion before it, with
\* the tracked Z at or above it no motion comes before; and every plunge comes
\* after it.
C19_SafeApproach ==
    \A i \in 1..Len(prog) :
        LET e == prog[i]
            xy == { k \in MotionAt(e) : IsXYRapid(e.lines[k]) }
            h == FormatLength(RetractOf(e), e.g.units)
        IN  Expanded(e) =>
                /\ Cardinality(xy) = 1
                /\ \A k \in MotionAt(e) :
                      (\E t \in 2..Len(e.lines[k].toks) : e.lines[k].toks[t][1] \in {"X", "Y"})
                          => k \in xy
                /\ \A k \in xy :
                      LET before == { m \in MotionAt(e) : m < k } IN
                      /\ e.g.Z < RetractOf(e) =>
                            /\ before = {k - 1}
                            /\ e.lines[k - 1].toks = <<Word("G0"), Tok("Z", h)>>
                      /\ e.g.Z >= RetractOf(e) => before = {}
                      /\ \A m \in MotionAt(e) : First(e.lines[m]) = "G1" => k < m

C19_Witness ==
    \E i \in 1..Len(prog) :
        /\ Expanded(prog[i]) /\ prog[i].g.Z = 0 /\ prog[i].g.mode = "G90"
        /\ prog[i].g.units = "G21" /\ prog[i].c.Parameters["R"] = mm(5)
        /\ \E k \in 2..Len(prog[i].lines) :
              /\ IsXYRapid(prog[i].lines[k])
              /\ prog[i].lines[k - 1].toks = <<Word("G0"), Tok("Z", 5000)>>

\* the rapids of a peck expansion that go back into the hole: each is followed at
\* once by a plunge
ReEntries(e) ==
    { k \in 1..(Len(PeckBody(e)) - 1) :
        IsZMove(PeckBody(e)[k], "G0") /\ First(PeckBody(e)[k + 1]) = "G1" }
\* the plunges before position k of the body
PlungesBefore(e, k) == { j \in 1..(k - 1) : First(PeckBody(e)[j]) = "G1" }
\* the deepest depth drilled before position k (there is a plunge before it)
Deepest(e, k) ==
    LET zs == { ZOf(PeckBody(e)[j]) : j \in PlungesBefore(e, k) }
    IN  CHOOSE z \in zs : \A y \in zs : z <= y

\* C20: in a peck-drill expansion with Q > 0 every rapid that re-enters the hole
\* between pecks goes to 5% of the peck step above the deepest depth drilled so
\* far, strictly above that depth and strictly below the retract height; and no
\* rapid after the first plunge goes below the deepest depth drilled before it.
C20_ReEntry ==
    \A i \in 1..Len(prog) :
        LET e == prog[i]
            body == PeckBody(e)
            Q == e.c.Parameters["Q"]
        IN  PeckCase(e) =>
                /\ \A k \in ReEntries(e) :
                      LET n == Cardinality(PlungesBefore(e, k))
                          cut == RetractOf(e) - n * Q
                      IN  /\ n >= 1
                          /\ ZOf(body[k]) = FormatLength(cut + (Q * 5) \div 100, e.g.units)
                          /\ ZOf(body[k]) > Deepest(e, k)
                          /\ ZOf(body[k]) < FormatLength(RetractOf(e), e.g.units)
                /\ \A k \in 1..Len(body) :
                      (IsZMove(body[k], "G0") /\ PlungesBefore(e, k) # {}) =>
                          ZOf(body[k]) >= Deepest(e, k)

C20_Witness ==
    \E i \in 1..Len(prog) :
        /\ PeckCase(prog[i]) /\ PeckExample(prog[i]) /\ prog[i].g.retract = "G99"
        /\ Cardinality(ReEntries(prog[i])) = 4
        /\ \E k \in ReEntries(prog[i]) : ZOf(PeckBody(prog[i])[k]) = 2150

\* the value of an axis after command c, the value before being cur
AxisAfter(c, axis, cur) ==
    IF c.Name \in MOVES /\ axis \in DOMAIN c.Parameters THEN c.Parameters[axis] ELSE cur

\* C21: a step that takes a command sets each of X, Y, Z of the tracked position
\* to the value the command carries for it when the command is a motion command
\* (G0, G1, G2, G3 and their two-digit forms) that carries the axis, and leaves it
\* as it was otherwise; every other step leaves the tracked position unchanged.
C21_PositionFrame ==
    [][ IF Len(prog') = Len(prog) + 1
        THEN LET c == prog'[Len(prog')].c
             IN  /\ CURRENT_X' = AxisAfter(c, "X", CURRENT_X)
                 /\ CURRENT_Y' = AxisAfter(c, "Y", CURRENT_Y)
                 /\ CURRENT_Z' = AxisAfter(c, "Z", CURRENT_Z)
        ELSE position' = position ]_vars

C21_Witness ==
    /\ Len(prog) = 2
    /\ prog[1].c.Name = "G0" /\ prog[2].c.Name = "G1"
    /\ DOMAIN prog[2].c.Parameters = {"Y", "F"}
    /\ position = <<mm(10), mm(5), mm(20)>>

\* the unit-switch lines of the text, and the units they name
IsUnitSwitch(p) == Len(p.toks) = 1 /\ p.toks[1][1] \in UNIT_COMMANDS /\ Len(p.toks[1]) = 1
\* the units in force at piece k of text t: those of the last unit-switch line
\* before it ("" when there is none)
UnitsAt(t, k) ==
    LET sw == { j \in 1..(k - 1) : IsUnitSwitch(t[j]) }
    IN  IF sw = {} THEN ""
        ELSE t[CHOOSE j \in sw : \A i \in sw : i <= j].toks[1][1]
\* a piece that carries a command's X: a linear move or the rapid to a hole
CarriesX(p) == Len(p.toks) >= 2 /\ First(p) \in {"G0", "G1"} /\ p.toks[2][1] = "X"

\* the X values and the feed of the commands of UnitsCommands
ProgramXs == { c.Parameters["X"] : c \in { d \in UnitsCommands : "X" \in DOMAIN d.Parameters } }
ProgramFeed == mm(2)
\* the feed of a piece (0 when it has none)
FeedOf(p) == LET t == p.toks[Len(p.toks)] IN IF t[1] = "F" THEN t[2] ELSE 0

\* C22: in the exported text every X and every feed of a move is an X or the feed
\* of the program converted with the units of the last unit-switch line (G20,
\* G21) before it, and a unit-switch line stands before the first operation.
C22_Units ==
    /\ pc # "export" => \E k \in 1..Len(gcode) : IsUnitSwitch(gcode[k])
    /\ \A k \in 1..Len(Text) :
          LET u == UnitsAt(Text, k) IN
          /\ CarriesX(Text[k]) =>
                /\ u # ""
                /\ Text[k].toks[2][2] \in { FormatLength(x, u) : x \in ProgramXs }
          /\ (First(Text[k]) = "G1" /\ FeedOf(Text[k]) # 0) =>
                /\ u # ""
                /\ FeedOf(Text[k]) \in {SpeedValue(ProgramFeed, u), FormatFeed2(ProgramFeed, u)}

\* a piece that is the comment of command c: it opens with "(" and the mnemonic
\* and closes with ")"
CommentOf(p, c) ==
    /\ p.toks # <<>>
    /\ p.toks[1][1] = "(" \o c.Name
    /\ p.toks[Len(p.toks)][Len(p.toks[Len(p.toks)])] = ")"
    /\ p.nl

\* C23: with drill-cycle translation on no piece of the text starts with G81, G82
\* or G83, and with comments on the first piece a cycle adds to the text is the
\* comment of the cycle, mnemonic included.
C23_CycleCommented ==
    /\ cfg.TRANSLATE_DRILL_CYCLES =>
          \A k \in 1..Len(Text) : First(Text[k]) \notin DRILL_CYCLES
    /\ \A i \in 1..Len(prog) :
          (Translated(prog[i]) /\ prog[i].state = "done" /\ cfg.OUTPUT_COMMENTS) =>
              /\ prog[i].lines # <<>>
              /\ CommentOf(prog[i].lines[1], prog[i].c)

\* sequence s is a prefix of sequence t
IsPrefix(s, t) == Len(s) <= Len(t) /\ SubSeq(t, 1, Len(s)) = s

\* C24: while an operation is parsed every step that takes a command, or carries
\* on with one, leaves the text accumulated for the operation a prefix of the text
\* afterwards.
C24_OnlyGrows ==
    [][ (pc \in {"parse", "peck"} /\ pc' \in {"parse", "peck"}) =>
            IsPrefix(out.text, out'.text) ]_vars

\* C25: when parse has just finished a drill cycle that was expanded in absolute
\* mode, the tracked X and Y are the hole's and the tracked Z is the retract height
\* the expansion ended at.
C25_TrackedAfterCycle ==
    (pc = "parse" /\ prog # <<>>) =>
        LET e == prog[Len(prog)] IN
        (Expanded(e) /\ e.g.mode = "G90") =>
            position = <<e.c.Parameters["X"], e.c.Parameters["Y"], RetractOf(e)>>

\* the coolant lines of the part of the text the last operation made
CoolantOnLines == { k \in 1..Len(out.text) : First(out.text[k]) \in {"M7", "M8"} }
CoolantOffLines == { k \in 1..Len(out.text) : First(out.text[k]) = "M9" }
CoolantComments ==
    { k \in 1..Len(out.text) :
        \E m \in {"None", "Flood", "Mist"} :
            First(out.text[k]) \in {"(Coolant On: " \o m \o ")", "(Coolant Off: " \o m \o ")"} }

PeckApproaches == [][(pc = "peck" /\ pc' = "peck") => Remaining' < Remaining]_vars

\* C27: the peck loop of every G83 with R >= Z and a peck step Q other than 0,
\* negative Q included, comes to its end: every iteration that stays in the loop
\* brings the stop nearer the hole bottom, and a loop that runs is left.
C27_PeckLoopEnds ==
    /\ PeckApproaches
    /\ (pc = "peck") ~> (pc # "peck")
====
